---- MODULE Spec2Model ----
(***************************************************************************)
(* A model of parse-marathon-events: the scraper of src/scrape-roadrun.mjs *)
(* (text normalizers, detail extractor, pipeline driver) and the Notion    *)
(* sync engine of src/notion.mjs.                                          *)
(*                                                                         *)
(* Text is a sequence of symbols.  A symbol is one character, or one of    *)
(* the literal words the source's regular expressions and label tests     *)
(* match as a unit.  The Korean literals are written in ASCII:             *)
(*   "nyeon" U+B144, "wol" U+C6D4, "il" U+C77C   (year, month, day)        *)
(*   "ojeon" U+C624 U+C804 (a.m.), "ohu" U+C624 U+D6C4 (p.m.)              *)
(*   "si" U+C2DC (hour), "bun" U+BD84 (minute)                             *)
(*   "daehoemyeong" (event name), "daehoeilsi" (date/time),                *)
(*   "daehoejongmok" (category), "daehoejiyeok" (region),                  *)
(*   "daehoejangso" (venue), "jeopsugigan" (application period),           *)
(*   "hompeiji" (homepage), "pul" (full), "hapeu" (half).                  *)
(* JavaScript's null is the one-symbol text <<"null">>, which no input     *)
(* alphabet contains; the empty string is <<>>.                            *)
(***************************************************************************)
EXTENDS Integers, Sequences, FiniteSets, TLC

VARIABLES
  token,       \* NOTION_TOKEN is set
  dbId,        \* NOTION_DB_ID is set
  pages,       \* the destination store: sequence of [id, props], in store order
  runs,        \* the processes running main()
  pc,          \* per run: where main() stands
  nos,         \* per run: Array.from(nos) returned by fetchListNos
  idx,         \* per run: position of the for loop in nos
  race,        \* per run: the record fetchRaceDetail returned
  existing,    \* per run: the list queryByRaceName returned
  results,     \* per run: the accumulated records
  exitStatus,  \* per run: -1 while running, else the process's exit status
  attempted,   \* history, per run: the identifiers handed to fetchRaceDetail
  trail,       \* history, per run: how each attempted identifier ended
  calls,       \* history: the requests sent to the store
  written,     \* history, per run: the record lists handed to writeFileSync
  faults,      \* history, per run: the steps that threw ("list", "detail", "sync", "persist")
  text,        \* the text handed to parseTime
  timeOut,     \* what parseTime returned for it
  tpc,         \* "input" before the call of parseTime, "parsed" after it
  doc,         \* the detail document: a sequence of table rows
  row,         \* the extractor's position in doc
  fields,      \* the extractor's locals (raceName, dateRaw, ...)
  record,      \* the Event Record the extractor returned
  xpc          \* where fetchRaceDetail stands

syncVars == <<token, dbId, pages, runs, pc, nos, idx, race, existing, results,
              exitStatus, attempted, trail, calls, written, faults>>
timeVars == <<text, timeOut, tpc>>
exVars == <<doc, row, fields, record, xpc>>
vars == <<syncVars, timeVars, exVars>>

\* ---------------------------------------------------------------- bounds
MaxNos == 2
MaxStored == 2
MaxTextLen == 5
MaxRows == 2

\* ------------------------------------------------------------- utilities
null == <<"null">>

Range(s) == {s[i] : i \in DOMAIN s}

Last(s) == s[Len(s)]

SeqsUpTo(S, n) == UNION {[1..k -> S] : k \in 0..n}

Injective(s) == \A i, j \in DOMAIN s : i # j => s[i] # s[j]

Orderings(s) ==
  {p \in [DOMAIN s -> Range(s)] : Injective(p)}

\* JavaScript truthiness of a string-or-null value
Truthy(v) == v # null /\ v # <<>>

\* ------------------------------------- scrape-roadrun.mjs: text normalizers
DigitSeq == <<"0", "1", "2", "3", "4", "5", "6", "7", "8", "9">>

Digits == Range(DigitSeq)

\* \s of the regular expressions
Spaces == {" ", "\n"}

DigitVal(c) == (CHOOSE i \in DOMAIN DigitSeq : DigitSeq[i] = c) - 1

AllDigits(s, from, to) ==
  /\ from >= 1 /\ to <= Len(s)
  /\ \A i \in from..to : s[i] \in Digits

SymbolAt(s, i, c) == i >= 1 /\ i <= Len(s) /\ s[i] = c

\* parseInt(str, 10) of a run of digits
RECURSIVE parseInt(_)
parseInt(ds) ==
  IF ds = <<>> THEN 0
  ELSE 10 * parseInt(SubSeq(ds, 1, Len(ds) - 1)) + DigitVal(ds[Len(ds)])

\* String(n) of a non-negative integer
RECURSIVE String(_)
String(n) ==
  IF n < 10 THEN <<DigitSeq[n + 1]>>
  ELSE String(n \div 10) \o <<DigitSeq[(n % 10) + 1]>>

\* str.padStart(2, "0")
padStart2(str) == IF Len(str) < 2 THEN <<"0">> \o str ELSE str

\* str.replace(/\s+/g, "")
StripSpaces(str) == SelectSeq(str, LAMBDA c : c \notin Spaces)

NoMatch == [ok |-> FALSE]

\* /(\d{1,2}):(\d{2})/ tried at position i with an hour of hl digits
TryHM(s, i, hl) ==
  /\ AllDigits(s, i, i + hl - 1)
  /\ SymbolAt(s, i + hl, ":")
  /\ AllDigits(s, i + hl + 1, i + hl + 2)

\* the leftmost match, the longer hour tried first
RECURSIVE MatchHM(_, _)
MatchHM(s, i) ==
  IF i > Len(s) THEN NoMatch
  ELSE IF \E hl \in {1, 2} : TryHM(s, i, hl)
       THEN LET hl == IF TryHM(s, i, 2) THEN 2 ELSE 1
            IN [ok |-> TRUE, h |-> SubSeq(s, i, i + hl - 1),
                mi |-> SubSeq(s, i + hl + 1, i + hl + 2)]
       ELSE MatchHM(s, i + 1)

\* (\d{1,2})<unit> tried at position i with dl digits
TryNumUnit(s, i, dl, unit) ==
  /\ AllDigits(s, i, i + dl - 1)
  /\ SymbolAt(s, i + dl, unit)

\* the optional group (?:(\d{1,2})bun)? at position j: its digits, or <<>>
MinuteGroup(s, j) ==
  IF TryNumUnit(s, j, 2, "bun") THEN SubSeq(s, j, j + 1)
  ELSE IF TryNumUnit(s, j, 1, "bun") THEN SubSeq(s, j, j)
  ELSE <<>>

\* /(ojeon|ohu)(\d{1,2})si(?:(\d{1,2})bun)?/, leftmost
RECURSIVE MatchAmPm(_, _)
MatchAmPm(s, i) ==
  IF i > Len(s) THEN NoMatch
  ELSE IF s[i] \in {"ojeon", "ohu"} /\ \E hl \in {1, 2} : TryNumUnit(s, i + 1, hl, "si")
       THEN LET hl == IF TryNumUnit(s, i + 1, 2, "si") THEN 2 ELSE 1
            IN [ok |-> TRUE, ampm |-> s[i], hourStr |-> SubSeq(s, i + 1, i + hl),
                minuteStr |-> MinuteGroup(s, i + hl + 2)]
       ELSE MatchAmPm(s, i + 1)

\* /(\d{1,2})si/, leftmost
RECURSIVE MatchBareHour(_, _)
MatchBareHour(s, i) ==
  IF i > Len(s) THEN NoMatch
  ELSE IF \E hl \in {1, 2} : TryNumUnit(s, i, hl, "si")
       THEN LET hl == IF TryNumUnit(s, i, 2, "si") THEN 2 ELSE 1
            IN [ok |-> TRUE, hourStr |-> SubSeq(s, i, i + hl - 1)]
       ELSE MatchBareHour(s, i + 1)

\* a slip: twelve added to every afternoon hour, noon included
AmPmHourNoonShifted(ampm, hour) ==
  IF ampm = "ohu" THEN hour + 12
  ELSE IF ampm = "ojeon" /\ hour = 12 THEN 0
  ELSE hour

\* lines 46-52
AmPmHour(ampm, hour) ==
  LET h1 == IF ampm = "ohu" /\ hour < 12 THEN hour + 12 ELSE hour
  IN IF ampm = "ojeon" /\ h1 = 12 THEN 0 ELSE h1

parseTime(str) ==
  LET s == StripSpaces(str)
      m1 == MatchHM(s, 1)
      m2 == MatchAmPm(s, 1)
      m3 == MatchBareHour(s, 1)
  IN IF m1.ok THEN padStart2(m1.h) \o <<":">> \o m1.mi
     ELSE IF m2.ok
     THEN LET hour == AmPmHour(m2.ampm, parseInt(m2.hourStr))
              minute == IF m2.minuteStr # <<>> THEN parseInt(m2.minuteStr) ELSE 0
          IN padStart2(String(hour)) \o <<":">> \o padStart2(String(minute))
     ELSE IF m3.ok
     THEN padStart2(String(parseInt(m3.hourStr))) \o <<":">> \o <<"0", "0">>
     ELSE null

\* text.replace(/\s+/g, " "): every run of whitespace becomes one space
RECURSIVE CollapseSpaces(_)
CollapseSpaces(t) ==
  IF t = <<>> THEN <<>>
  ELSE IF t[1] \in Spaces
       THEN IF Len(t) > 1 /\ t[2] \in Spaces
            THEN CollapseSpaces(Tail(t))
            ELSE <<" ">> \o CollapseSpaces(Tail(t))
       ELSE <<t[1]>> \o CollapseSpaces(Tail(t))

\* String.prototype.trim
RECURSIVE trim(_)
trim(t) ==
  IF t = <<>> THEN <<>>
  ELSE IF t[1] \in Spaces THEN trim(Tail(t))
  ELSE IF t[Len(t)] \in Spaces THEN trim(SubSeq(t, 1, Len(t) - 1))
  ELSE t

clean(t) == trim(CollapseSpaces(t))

\* \s* from position j: the first position that holds no whitespace
RECURSIVE SkipSpaces(_, _)
SkipSpaces(s, j) ==
  IF j <= Len(s) /\ s[j] \in Spaces THEN SkipSpaces(s, j + 1) ELSE j

\* \s*<unit>\s* from position j: the position after it, or 0
AfterUnit(s, j, unit) ==
  LET k == SkipSpaces(s, j)
  IN IF SymbolAt(s, k, unit) THEN SkipSpaces(s, k + 1) ELSE 0

\* (\d{1,2})\s*<unit> at position j: the number of digits taken, or 0
NumBeforeUnit(s, j, unit) ==
  IF AllDigits(s, j, j + 1) /\ SymbolAt(s, SkipSpaces(s, j + 2), unit) THEN 2
  ELSE IF AllDigits(s, j, j) /\ SymbolAt(s, SkipSpaces(s, j + 1), unit) THEN 1
  ELSE 0

\* /(\d{4})\s*nyeon\s*(\d{1,2})\s*wol\s*(\d{1,2})\s*il/ tried at position i
TryDate(s, i) ==
  IF ~AllDigits(s, i, i + 3) THEN NoMatch
  ELSE LET j == AfterUnit(s, i + 4, "nyeon")
           ml == IF j = 0 THEN 0 ELSE NumBeforeUnit(s, j, "wol")
           k == IF ml = 0 THEN 0 ELSE AfterUnit(s, j + ml, "wol")
           dl == IF k = 0 THEN 0 ELSE NumBeforeUnit(s, k, "il")
       IN IF dl = 0 THEN NoMatch
          ELSE [ok |-> TRUE, y |-> SubSeq(s, i, i + 3), mo |-> SubSeq(s, j, j + ml - 1),
                d |-> SubSeq(s, k, k + dl - 1)]

RECURSIVE MatchDate(_, _)
MatchDate(s, i) ==
  IF i > Len(s) THEN NoMatch
  ELSE IF TryDate(s, i).ok THEN TryDate(s, i)
  ELSE MatchDate(s, i + 1)

IsLeap(y) == (y % 4 = 0 /\ y % 100 # 0) \/ y % 400 = 0

DaysInMonth(y, m) ==
  IF m = 2 THEN (IF IsLeap(y) THEN 29 ELSE 28)
  ELSE IF m \in {4, 6, 9, 11} THEN 30 ELSE 31

\* the calendar date that is day d (0..99) of month m (1..12) of year y, as
\* the Date constructor carries a day outside the month over
RECURSIVE CarryDay(_, _, _)
CarryDay(y, m, d) ==
  IF d < 1
  THEN LET pm == IF m = 1 THEN 12 ELSE m - 1
           py == IF m = 1 THEN y - 1 ELSE y
       IN CarryDay(py, pm, d + DaysInMonth(py, pm))
  ELSE IF d > DaysInMonth(y, m)
       THEN CarryDay(IF m = 12 THEN y + 1 ELSE y, IF m = 12 THEN 1 ELSE m + 1,
                     d - DaysInMonth(y, m))
       ELSE [y |-> y, m |-> m, d |-> d]

\* dayjs("<y>-<mo>-<d>"): new Date(y, mo - 1, d) in local time; a year
\* 0..99 is taken as 1900 + year, month and day overflow are carried
dayjs(y, mo, d) ==
  LET y1 == IF y <= 99 THEN 1900 + y ELSE y
      m0 == mo - 1
      y2 == IF m0 < 0 THEN y1 - 1 ELSE y1 + (m0 \div 12)
      m2 == IF m0 < 0 THEN 12 ELSE (m0 % 12) + 1
  IN CarryDay(y2, m2, d)

parseKoreanDate(str) ==
  LET m == MatchDate(str, 1)
  IN IF ~m.ok THEN [ok |-> FALSE]
     ELSE [ok |-> TRUE, date |-> dayjs(parseInt(m.y), parseInt(m.mo), parseInt(m.d))]

\* String(n).padStart(4, "0")
padStart4(str) ==
  IF Len(str) < 4 THEN [i \in 1..(4 - Len(str)) |-> "0"] \o str ELSE str

\* dateObj.format("YYYY-MM-DD")
formatDate(dt) ==
  padStart4(String(dt.y)) \o <<"-">> \o padStart2(String(dt.m)) \o <<"-">>
    \o padStart2(String(dt.d))

\* the pieces of text.split(sep)
RECURSIVE split(_, _)
split(t, sep) ==
  IF \E i \in DOMAIN t : t[i] = sep
  THEN LET i == CHOOSE k \in DOMAIN t : t[k] = sep /\ \A j \in 1..(k - 1) : t[j] # sep
       IN <<SubSeq(t, 1, i - 1)>> \o split(SubSeq(t, i + 1, Len(t)), sep)
  ELSE <<t>>

\* the digits of /(\d+)\s*k/i tried at position i, or <<>>
RECURSIVE DigitRunEnd(_, _)
DigitRunEnd(s, i) ==
  IF i <= Len(s) /\ s[i] \in Digits THEN DigitRunEnd(s, i + 1) ELSE i

TryDistance(s, i) ==
  LET e == DigitRunEnd(s, i)
      k == SkipSpaces(s, e)
  IN IF e > i /\ k <= Len(s) /\ s[k] \in {"k", "K"} THEN SubSeq(s, i, e - 1) ELSE <<>>

RECURSIVE MatchDistance(_, _)
MatchDistance(s, i) ==
  IF i > Len(s) THEN <<>>
  ELSE IF TryDistance(s, i) # <<>> THEN TryDistance(s, i)
  ELSE MatchDistance(s, i + 1)

NormalizeOne(seg) ==
  IF "pul" \in Range(seg) THEN <<"full">>
  ELSE IF "hapeu" \in Range(seg) THEN <<"half">>
  ELSE IF MatchDistance(seg, 1) # <<>> THEN MatchDistance(seg, 1) \o <<"k">>
  ELSE seg

normalizeCourse(t) ==
  LET parts == split(t, ",")
      trimmed == [i \in DOMAIN parts |-> trim(parts[i])]
      kept == SelectSeq(trimmed, LAMBDA x : x # <<>>)
  IN [i \in DOMAIN kept |-> NormalizeOne(kept[i])]

\* /https?:\/\/\S+/ in t: the first scheme followed by a non-space symbol,
\* up to the next whitespace; <<>> when there is none
RECURSIVE NonSpaceEnd(_, _)
NonSpaceEnd(s, i) ==
  IF i <= Len(s) /\ s[i] \notin Spaces THEN NonSpaceEnd(s, i + 1) ELSE i

Schemes == {"http://", "https://"}

RECURSIVE MatchUrl(_, _)
MatchUrl(s, i) ==
  IF i >= Len(s) THEN <<>>
  ELSE IF s[i] \in Schemes /\ s[i + 1] \notin Spaces
       THEN SubSeq(s, i, NonSpaceEnd(s, i + 1) - 1)
       ELSE MatchUrl(s, i + 1)

\* ------------------------------------------------------------ notion.mjs
NoTitle == <<"(no title)">>

\* String.prototype.replace(" ", "T"): the first space only
ReplaceFirstSpace(s) ==
  IF \E i \in DOMAIN s : s[i] = " "
  THEN LET i == CHOOSE k \in DOMAIN s : s[k] = " " /\ \A j \in 1..(k - 1) : s[j] # " "
       IN [s EXCEPT ![i] = "T"]
  ELSE s

buildProperties(r) ==
  LET raceStart == IF Truthy(r.race_datetime)
                   THEN ReplaceFirstSpace(r.race_datetime) \o <<"+09:00">>
                   ELSE null
      base == [Name |-> IF Truthy(r.race_name) THEN r.race_name ELSE NoTitle,
               Location |-> IF Truthy(r.location_full) THEN r.location_full ELSE <<>>,
               Course |-> r.course]
      opt == {<<"Race DateTime", raceStart>>, <<"Entry Start", r.entry_start>>,
              <<"Entry End", r.entry_end>>, <<"URL", r.homepage>>}
      present == {o \in opt : Truthy(o[2])}
  IN [k \in {"Name", "Location", "Course"} \cup {o[1] : o \in present} |->
        IF k \in {"Name", "Location", "Course"} THEN base[k]
        ELSE (CHOOSE o \in present : o[1] = k)[2]]

\* The store's answer to the title-equals filter: the pages whose title is
\* `name`, in an order of the store's choosing.
TitleMatches(name) ==
  SelectSeq(pages, LAMBDA p : p.props["Name"] = name)

QueryAnswers(name) == Orderings(TitleMatches(name))

\* upsertRaceToNotion's branch and its target
HasExisting(ex) == Len(ex) > 0

\* a slip: the last match instead of the first
UpdateTargetLast(ex) == ex[Len(ex)].id

UpdateTarget(ex) == ex[1].id

\* ------------------------------------------------- scrape-roadrun.mjs: main
Names == {<<>>, <<"A">>}

SampleStart == <<"2", "0", "2", "6", "-", "0", "1", "-", "1", "1", " ",
                 "0", "9", ":", "3", "0">>

\* The record fetchRaceDetail returns for identifier `no` when the page's
\* name row reads `name` (the extractor itself is modelled under SpecExtract).
EventRecord(no, name, startAt, homepage) ==
  [source |-> "roadrun", source_id |-> no, race_name |-> name,
   race_datetime |-> startAt, course |-> <<>>, location_full |-> <<>>,
   entry_period_raw |-> <<>>, entry_start |-> null, entry_end |-> null,
   homepage |-> homepage]

DetailRecords(no) ==
  {EventRecord(no, n, IF n = <<>> THEN null ELSE SampleStart, null) : n \in Names}

NoRace == EventRecord(0, <<>>, null, null)

StoredProps == [Name |-> <<"A">>, Location |-> <<>>, Course |-> <<>>]

InitialStores ==
  {[i \in 1..k |-> [id |-> i, props |-> StoredProps]] : k \in 0..MaxStored}

\* a slip: the loop left after its first iteration
AfterIterationBreak(i, n) == "persist"

\* the for...of loop's next position: another identifier, or the code after it
AfterIteration(i, n) == IF i < n THEN "detail" ELSE "persist"

\* a slip: no inner try, the throw reaches main's outer catch
OnIterationErrorRethrow(i, n) == "fatal"

\* the inner catch logs and lets the loop go on
OnIterationError(i, n) == AfterIteration(i, n)

\* a slip: a failed listing taken for an empty one
OnListErrorSwallowed == "persist"

\* a throw of fetchListNos lands in main's outer catch
OnListError == "fatal"

\* so does a throw of mkdirSync / writeFileSync
OnPersistError == "fatal"

FatalExitCode == 1

Step(r, phase) ==
  /\ pc' = [pc EXCEPT ![r] = phase]
  /\ idx' = [idx EXCEPT ![r] = IF phase = "detail" THEN @ + 1 ELSE @]

Fault(r, what) == faults' = [faults EXCEPT ![r] = @ \cup {what}]

EndIteration(r, how, phase) ==
  /\ trail' = [trail EXCEPT ![r] = Append(@, how)]
  /\ CASE how = "detailFailed" -> Fault(r, "detail")
       [] how = "syncRaised" -> Fault(r, "sync")
       [] OTHER -> UNCHANGED faults
  /\ Step(r, phase)

\* one request to the store, made while syncing the record named `name`
Call(r, op, title, status, ids) ==
  [run |-> r, at |-> idx[r], op |-> op, name |-> race[r].race_name,
   title |-> title, status |-> status, ids |-> ids]

fetchListNos(r) ==
  /\ pc[r] = "list"
  /\ \/ /\ Step(r, OnListError)
        /\ Fault(r, "list")
        /\ UNCHANGED nos
     \/ \E found \in {s \in SeqsUpTo(1..MaxNos, MaxNos) : Injective(s)} :
          /\ nos' = [nos EXCEPT ![r] = found]
          /\ pc' = [pc EXCEPT ![r] = AfterIteration(0, Len(found))]
          /\ idx' = [idx EXCEPT ![r] = IF Len(found) > 0 THEN 1 ELSE 0]
          /\ UNCHANGED faults
  /\ UNCHANGED <<token, dbId, pages, runs, race, existing, results, exitStatus,
                 attempted, trail, calls, written, timeVars, exVars>>

fetchRaceDetail(r) ==
  /\ pc[r] = "detail"
  /\ attempted' = [attempted EXCEPT ![r] = Append(@, nos[r][idx[r]])]
  /\ \/ /\ EndIteration(r, "detailFailed", OnIterationError(idx[r], Len(nos[r])))
        /\ UNCHANGED <<race, results>>
     \/ \E rec \in DetailRecords(nos[r][idx[r]]) :
          /\ race' = [race EXCEPT ![r] = rec]
          /\ results' = [results EXCEPT ![r] = Append(@, rec)]
          /\ pc' = [pc EXCEPT ![r] = "upsert"]
          /\ UNCHANGED <<idx, trail, faults>>
  /\ UNCHANGED <<token, dbId, pages, runs, nos, existing, exitStatus, calls,
                 written, timeVars, exVars>>

upsertRaceToNotion(r) ==
  /\ pc[r] = "upsert"
  /\ IF ~dbId
     THEN EndIteration(r, "synced", AfterIteration(idx[r], Len(nos[r])))
     ELSE pc' = [pc EXCEPT ![r] = "query"] /\ UNCHANGED <<idx, trail, faults>>
  /\ UNCHANGED <<token, dbId, pages, runs, nos, race, existing, results,
                 exitStatus, attempted, calls, written, timeVars, exVars>>

queryByRaceName(r) ==
  /\ pc[r] = "query"
  /\ LET name == race[r].race_name IN
     IF ~dbId \/ ~token
     THEN /\ existing' = [existing EXCEPT ![r] = <<>>]
          /\ pc' = [pc EXCEPT ![r] = "write"]
          /\ UNCHANGED <<idx, trail, calls, faults>>
     ELSE \/ /\ calls' = Append(calls, Call(r, "query", name, "threw", <<>>))
             /\ EndIteration(r, "syncRaised", OnIterationError(idx[r], Len(nos[r])))
             /\ UNCHANGED existing
          \/ /\ calls' = Append(calls, Call(r, "query", name, "non2xx", <<>>))
             /\ existing' = [existing EXCEPT ![r] = <<>>]
             /\ pc' = [pc EXCEPT ![r] = "write"]
             /\ UNCHANGED <<idx, trail, faults>>
          \/ \E ans \in QueryAnswers(name) :
               /\ calls' = Append(calls, Call(r, "query", name, "ok",
                                         [i \in DOMAIN ans |-> ans[i].id]))
               /\ existing' = [existing EXCEPT ![r] = ans]
               /\ pc' = [pc EXCEPT ![r] = "write"]
               /\ UNCHANGED <<idx, trail, faults>>
  /\ UNCHANGED <<token, dbId, pages, runs, nos, race, results, exitStatus,
                 attempted, written, timeVars, exVars>>

\* The store accepts a write only from a client that holds a token.
WriteOutcomes == IF token THEN {"ok", "failed"} ELSE {"failed"}

EndWrite(r, status) ==
  IF status = "ok"
  THEN EndIteration(r, "synced", AfterIteration(idx[r], Len(nos[r])))
  ELSE EndIteration(r, "syncRaised", OnIterationError(idx[r], Len(nos[r])))

pagesUpdate(r) ==
  /\ pc[r] = "write"
  /\ HasExisting(existing[r])
  /\ LET properties == buildProperties(race[r])
         pageId == UpdateTarget(existing[r])
     IN \E status \in WriteOutcomes :
          /\ calls' = Append(calls, Call(r, "update", properties["Name"], status, <<pageId>>))
          /\ pages' = IF status = "ok"
                       THEN [i \in DOMAIN pages |->
                               IF pages[i].id = pageId
                               THEN [pages[i] EXCEPT !.props = properties]
                               ELSE pages[i]]
                       ELSE pages
          /\ EndWrite(r, status)
  /\ UNCHANGED <<token, dbId, runs, nos, race, existing, results, exitStatus,
                 attempted, written, timeVars, exVars>>

pagesCreate(r) ==
  /\ pc[r] = "write"
  /\ ~HasExisting(existing[r])
  /\ LET properties == buildProperties(race[r])
         pageId == Len(pages) + 1
     IN \E status \in WriteOutcomes :
          /\ calls' = Append(calls, Call(r, "create", properties["Name"], status,
                                         IF status = "ok" THEN <<pageId>> ELSE <<>>))
          /\ pages' = IF status = "ok"
                       THEN Append(pages, [id |-> pageId, props |-> properties])
                       ELSE pages
          /\ EndWrite(r, status)
  /\ UNCHANGED <<token, dbId, runs, nos, race, existing, results, exitStatus,
                 attempted, written, timeVars, exVars>>

\* lines 234-242: ensure the output directory, write the file
mainSave(r) ==
  /\ pc[r] = "persist"
  /\ written' = [written EXCEPT ![r] = Append(@, results[r])]
  /\ \/ /\ pc' = [pc EXCEPT ![r] = "done"]
        /\ exitStatus' = [exitStatus EXCEPT ![r] = 0]
        /\ UNCHANGED faults
     \/ /\ pc' = [pc EXCEPT ![r] = OnPersistError]
        /\ Fault(r, "persist")
        /\ UNCHANGED exitStatus
  /\ UNCHANGED <<token, dbId, pages, runs, nos, idx, race, existing, results,
                 attempted, trail, calls, timeVars, exVars>>

\* lines 243-246: console.error("[FATAL]"), process.exit(1)
mainCatch(r) ==
  /\ pc[r] = "fatal"
  /\ pc' = [pc EXCEPT ![r] = "exited"]
  /\ exitStatus' = [exitStatus EXCEPT ![r] = FatalExitCode]
  /\ UNCHANGED <<token, dbId, pages, runs, nos, idx, race, existing, results,
                 attempted, trail, calls, written, faults, timeVars, exVars>>

IdleTime == text = <<>> /\ timeOut = null /\ tpc = "idle"

\* lines 133-139
InitialFields ==
  [raceName |-> <<>>, dateRaw |-> <<>>, courseRaw |-> <<>>, region |-> <<>>,
   venue |-> <<>>, entryRaw |-> <<>>, homepage |-> null]

IdleExtract ==
  /\ doc = <<>>
  /\ row = 0
  /\ fields = InitialFields
  /\ record = NoRace
  /\ xpc = "idle"

InitRuns(rs, phase) ==
  /\ runs = rs
  /\ pc = [r \in rs |-> phase]
  /\ nos = [r \in rs |-> <<>>]
  /\ idx = [r \in rs |-> 0]
  /\ race = [r \in rs |-> NoRace]
  /\ existing = [r \in rs |-> <<>>]
  /\ results = [r \in rs |-> <<>>]
  /\ exitStatus = [r \in rs |-> -1]
  /\ attempted = [r \in rs |-> <<>>]
  /\ trail = [r \in rs |-> <<>>]
  /\ written = [r \in rs |-> <<>>]
  /\ faults = [r \in rs |-> {}]
  /\ calls = <<>>

Init ==
  /\ token \in BOOLEAN
  /\ dbId \in BOOLEAN
  /\ pages \in InitialStores
  /\ InitRuns({1}, "list")
  /\ IdleTime
  /\ IdleExtract

Next ==
  \/ \E r \in runs : fetchListNos(r)
  \/ \E r \in runs : fetchRaceDetail(r)
  \/ \E r \in runs : upsertRaceToNotion(r)
  \/ \E r \in runs : queryByRaceName(r)
  \/ \E r \in runs : pagesUpdate(r)
  \/ \E r \in runs : pagesCreate(r)
  \/ \E r \in runs : mainSave(r)
  \/ \E r \in runs : mainCatch(r)

Spec == Init /\ [][Next]_vars

\* Every step of main runs to completion and every awaited request settles.
FairSpec == Spec /\ WF_vars(Next)

\* Two runs of main() against one store, each past its listing and its
\* detail fetch, about to sync a record of the same name.
InitRace ==
  /\ token \in BOOLEAN
  /\ dbId \in BOOLEAN
  /\ pages \in InitialStores
  /\ runs = {1, 2}
  /\ \E n \in Names :
       LET rec == [r \in {1, 2} |->
                    EventRecord(r, n, IF n = <<>> THEN null ELSE SampleStart, null)]
       IN /\ race = rec
          /\ results = [r \in {1, 2} |-> <<rec[r]>>]
  /\ pc = [r \in {1, 2} |-> "upsert"]
  /\ nos = [r \in {1, 2} |-> <<r>>]
  /\ idx = [r \in {1, 2} |-> 1]
  /\ attempted = [r \in {1, 2} |-> <<r>>]
  /\ existing = [r \in {1, 2} |-> <<>>]
  /\ exitStatus = [r \in {1, 2} |-> -1]
  /\ trail = [r \in {1, 2} |-> <<>>]
  /\ written = [r \in {1, 2} |-> <<>>]
  /\ faults = [r \in {1, 2} |-> {}]
  /\ calls = <<>>
  /\ IdleTime
  /\ IdleExtract

NextRace ==
  \/ \E r \in runs : upsertRaceToNotion(r)
  \/ \E r \in runs : queryByRaceName(r)
  \/ \E r \in runs : pagesUpdate(r)
  \/ \E r \in runs : pagesCreate(r)
  \/ \E r \in runs : mainSave(r)
  \/ \E r \in runs : mainCatch(r)

SpecRace == InitRace /\ [][NextRace]_vars

\* ------------------------------------------- fetchRaceDetail on its own
\* A table row is the sequence of its td cells; a cell is its text and the
\* href attributes of the anchors in it (null for an anchor without href).
Cell(t, hrefs) == [text |-> t, anchors |-> hrefs]

Label(k) == Cell(<<k>>, <<>>)

TextCell(t) == Cell(t, <<>>)

\* the label tests of lines 152-164, in their order
LabelChain ==
  <<"daehoemyeong", "daehoeilsi", "daehoejongmok", "daehoejiyeok", "daehoejangso",
    "jeopsugigan", "hompeiji">>

\* label.includes(k)
includes(label, k) == k \in Range(label)

\* lines 165-171: the homepage after a homepage row
HomepageOf(valueTd, valueText, before) ==
  IF Len(valueTd.anchors) > 0 /\ Truthy(valueTd.anchors[1])
  THEN valueTd.anchors[1]
  ELSE IF MatchUrl(valueText, 1) # <<>> THEN MatchUrl(valueText, 1)
  ELSE before

\* lines 143-172: the loop body for one tr
ScanRow(f, tds) ==
  IF Len(tds) < 2 THEN f
  ELSE LET label == clean(tds[1].text)
           valueTd == tds[Len(tds)]
           valueText == clean(valueTd.text)
       IN IF label = <<>> THEN f
          ELSE IF includes(label, "daehoemyeong") THEN [f EXCEPT !.raceName = valueText]
          ELSE IF includes(label, "daehoeilsi") THEN [f EXCEPT !.dateRaw = valueText]
          ELSE IF includes(label, "daehoejongmok") THEN [f EXCEPT !.courseRaw = valueText]
          ELSE IF includes(label, "daehoejiyeok") THEN [f EXCEPT !.region = valueText]
          ELSE IF includes(label, "daehoejangso") THEN [f EXCEPT !.venue = valueText]
          ELSE IF includes(label, "jeopsugigan") THEN [f EXCEPT !.entryRaw = valueText]
          ELSE IF includes(label, "hompeiji")
               THEN [f EXCEPT !.homepage = HomepageOf(valueTd, valueText, f.homepage)]
          ELSE f

\* lines 176-183
RaceDatetime(dateRaw) ==
  IF dateRaw = <<>> THEN null
  ELSE LET dateObj == parseKoreanDate(dateRaw)
           parsed == parseTime(dateRaw)
           timeStr == IF Truthy(parsed) THEN parsed ELSE <<"0", "0", ":", "0", "0">>
       IN IF dateObj.ok THEN formatDate(dateObj.date) \o <<" ">> \o timeStr ELSE null

\* lines 192-200: <<entryStart, entryEnd>>
EntryDates(entryRaw) ==
  IF entryRaw # <<>> /\ "~" \in Range(entryRaw)
  THEN LET parts == split(entryRaw, "~")
           s == parseKoreanDate(clean(parts[1]))
           e == parseKoreanDate(clean(parts[2]))
       IN <<IF s.ok THEN formatDate(s.date) ELSE null,
            IF e.ok THEN formatDate(e.date) ELSE null>>
  ELSE <<null, null>>

\* [region, venue].filter(Boolean).join(" ")
LocationFull(region, venue) ==
  IF region = <<>> THEN venue
  ELSE IF venue = <<>> THEN region
  ELSE region \o <<" ">> \o venue

\* lines 175-214
DeriveRecord(no, f) ==
  [source |-> "roadrun", source_id |-> no, race_name |-> f.raceName,
   race_datetime |-> RaceDatetime(f.dateRaw),
   course |-> normalizeCourse(f.courseRaw),
   location_full |-> LocationFull(f.region, f.venue),
   entry_period_raw |-> f.entryRaw,
   entry_start |-> EntryDates(f.entryRaw)[1],
   entry_end |-> EntryDates(f.entryRaw)[2],
   homepage |-> f.homepage]

Date1 == <<"2", "0", "2", "6", "nyeon", "1", "wol", "1", "1", "il">>
Date2 == <<"2", "0", "2", "5", "nyeon", "1", "2", "wol", "1", "il">>
Date3 == <<"2", "0", "2", "5", "nyeon", "1", "2", "wol", "3", "1", "il">>
Url1 == <<"https://", "example.com">>

RowSamples ==
  {<<Label("daehoemyeong"), TextCell(<<"Test", " ", "Marathon">>)>>,
   <<Label("daehoemyeong"), TextCell(<<>>)>>,
   <<Label("daehoemyeong"), TextCell(<<"skipped">>), TextCell(<<" ", "Other", "\n">>)>>,
   <<Label("daehoemyeong")>>,
   <<>>,
   <<TextCell(<<" ", "\n">>), TextCell(<<"x">>)>>,
   <<Label("etc"), TextCell(<<"x">>)>>,
   <<TextCell(<<"daehoeilsi", "/", "daehoemyeong">>), TextCell(<<"Both">>)>>,
   <<Label("daehoeilsi"), TextCell(Date1 \o <<" ", "ojeon", "9", "si", "3", "0", "bun">>)>>,
   <<Label("daehoeilsi"),
     TextCell(<<"2", "0", "2", "6", " ", "nyeon", " ", "1", "3", "wol", "0", "il">>)>>,
   <<Label("daehoeilsi"), TextCell(<<"ohu", "3", "si">>)>>,
   <<Label("daehoeilsi"), TextCell(<<"undecided">>)>>,
   <<Label("daehoejongmok"), TextCell(<<"pul", "course", ",", "1", "0", "k">>)>>,
   <<Label("daehoejiyeok"), TextCell(<<"Seoul">>)>>,
   <<Label("daehoejangso"), TextCell(<<"Sangam">>)>>,
   <<Label("jeopsugigan"), TextCell(Date2 \o <<" ", "~", " ">> \o Date3)>>,
   <<Label("jeopsugigan"), TextCell(<<"~", " ">> \o Date3)>>,
   <<Label("jeopsugigan"), TextCell(Date2)>>,
   <<Label("hompeiji"), Cell(<<"link">>, <<Url1>>)>>,
   <<Label("hompeiji"), Cell(<<"link">>, <<<<"/", "race", "/", "index.html">>>>)>>,
   <<Label("hompeiji"), Cell(<<"see", " ", "http://", "a.b">>, <<null>>)>>,
   <<Label("hompeiji"), TextCell(<<"see", " ", "http://", "a.b", " ", "now">>)>>,
   <<Label("hompeiji"), TextCell(<<"none">>)>>}

\* the document of the specification's end-to-end example
EndToEndDoc ==
  <<<<Label("daehoemyeong"), TextCell(<<"Test", " ", "Marathon">>)>>,
    <<Label("daehoeilsi"), TextCell(Date1 \o <<" ", "ojeon", "9", "si", "3", "0", "bun">>)>>,
    <<Label("daehoejongmok"), TextCell(<<"pul", "course", ",", "1", "0", "k">>)>>,
    <<Label("daehoejiyeok"), TextCell(<<"Seoul">>)>>,
    <<Label("daehoejangso"), TextCell(<<"Sangam">>)>>,
    <<Label("jeopsugigan"), TextCell(Date2 \o <<" ", "~", " ">> \o Date3)>>,
    <<Label("hompeiji"), Cell(<<"link">>, <<Url1>>)>>>>

Docs == SeqsUpTo(RowSamples, MaxRows) \cup {EndToEndDoc}

InitExtract ==
  /\ doc \in Docs
  /\ row = 0
  /\ fields = InitialFields
  /\ record = NoRace
  /\ xpc = "rows"
  /\ token = FALSE /\ dbId = FALSE /\ pages = <<>>
  /\ InitRuns({}, "list")
  /\ IdleTime

\* lines 127-130
detailNoRows ==
  /\ xpc = "rows"
  /\ Len(doc) = 0
  /\ xpc' = "threw"
  /\ UNCHANGED <<doc, row, fields, record, syncVars, timeVars>>

\* lines 142-173, one tr
detailScanRow ==
  /\ xpc = "rows"
  /\ row < Len(doc)
  /\ row' = row + 1
  /\ fields' = ScanRow(fields, doc[row + 1])
  /\ UNCHANGED <<doc, record, xpc, syncVars, timeVars>>

\* lines 175-214
detailReturn ==
  /\ xpc = "rows"
  /\ Len(doc) > 0
  /\ row = Len(doc)
  /\ record' = DeriveRecord(1, fields)
  /\ xpc' = "returned"
  /\ UNCHANGED <<doc, row, fields, syncVars, timeVars>>

NextExtract == detailNoRows \/ detailScanRow \/ detailReturn

SpecExtract == InitExtract /\ [][NextExtract]_vars

\* ------------------------------------------------- parseTime on its own
TimeAlphabet == {"0", "1", "2", ":", "ojeon", "ohu", "si", "bun", " "}

\* the inputs of the source's comments and of the specification's examples,
\* and inputs in which two of the three patterns match apart
SampleTimeTexts ==
  {<<"ohu", "3", "si", "3", "0", "bun">>,
   <<"ojeon", "1", "2", "si">>,
   <<"9", "si">>,
   <<"0", "9", ":", "0", "5", " ", "start">>,
   <<"start", "si", "gan", ":", "ojeon", " ", "9", "si">>,
   <<"ojeon", "0", "9", "si", "0", "0", "bun">>,
   <<"ohu", "1", "2", "si", "5", "bun">>,
   <<"ohu", "1", "1", "si", "5", "9", "bun">>,
   <<"ohu", "1", "si", " ", "1", "0", ":", "3", "0">>,
   <<"9", "si", " ", "ojeon", "1", "0", "si">>,
   <<"2", "0", "2", "6", "nyeon", "1", "wol", "1", "1", "il", " ", "ojeon", "9",
     "si", "3", "0", "bun">>}

TimeTexts == SeqsUpTo(TimeAlphabet, MaxTextLen) \cup SampleTimeTexts

InitTime ==
  /\ text \in TimeTexts
  /\ timeOut = null
  /\ tpc = "input"
  /\ token = FALSE /\ dbId = FALSE /\ pages = <<>>
  /\ InitRuns({}, "list")
  /\ IdleExtract

parseTimeCall ==
  /\ tpc = "input"
  /\ timeOut' = parseTime(text)
  /\ tpc' = "parsed"
  /\ UNCHANGED <<text, syncVars, exVars>>

NextTime == parseTimeCall

SpecTime == InitTime /\ [][NextTime]_vars

\* ----------------------------------------------- claims under SpecExtract
C6_IsDate(t) ==
  /\ Len(t) = 10
  /\ t[5] = "-" /\ t[8] = "-"
  /\ \A i \in {1, 2, 3, 4, 6, 7, 9, 10} : t[i] \in Digits
  /\ 10 * DigitVal(t[6]) + DigitVal(t[7]) \in 1..12
  /\ 10 * DigitVal(t[9]) + DigitVal(t[10]) \in 1..31

C6_IsDateTime(t) ==
  /\ Len(t) = 16
  /\ C6_IsDate(SubSeq(t, 1, 10))
  /\ t[11] = " " /\ t[14] = ":"
  /\ \A i \in {12, 13, 15, 16} : t[i] \in Digits

C6_IsAbsoluteUrl(t) == Len(t) >= 2 /\ t[1] \in {"http://", "https://"}

\* the date fields of a returned record: null or in format, never "", and
\* no start without the three date units in the date/time text
C6_DatesWellFormed ==
  xpc = "returned" =>
    /\ record.race_datetime = null \/ C6_IsDateTime(record.race_datetime)
    /\ record.entry_start = null \/ C6_IsDate(record.entry_start)
    /\ record.entry_end = null \/ C6_IsDate(record.entry_end)
    /\ ~({"nyeon", "wol", "il"} \subseteq Range(fields.dateRaw)) =>
         record.race_datetime = null

\* the homepage of a returned record: null or an absolute URL
C6_HomepageAbsolute ==
  xpc = "returned" => (record.homepage = null \/ C6_IsAbsoluteUrl(record.homepage))

\* C6 (as claimed): in every record the extractor returns, startAt,
\* entryStart, entryEnd and homepage are each null or in their format
\* (YYYY-MM-DD HH:MM, YYYY-MM-DD, an absolute URL), never the empty string,
\* and startAt is null when the date/time text holds no calendar date.
C6_RecordWellFormed == C6_DatesWellFormed /\ C6_HomepageAbsolute

C7_Field(k) ==
  CASE k = "daehoemyeong" -> "raceName"
    [] k = "daehoeilsi" -> "dateRaw"
    [] k = "daehoejongmok" -> "courseRaw"
    [] k = "daehoejiyeok" -> "region"
    [] k = "daehoejangso" -> "venue"
    [] k = "jeopsugigan" -> "entryRaw"
    [] k = "hompeiji" -> "homepage"

\* a row of at least two cells whose label holds k and none of the labels
\* tested before k
C7_Matches(tds, k) ==
  /\ Len(tds) >= 2
  /\ \E p \in DOMAIN LabelChain :
       /\ LabelChain[p] = k
       /\ k \in Range(tds[1].text)
       /\ \A q \in 1..(p - 1) : LabelChain[q] \notin Range(tds[1].text)

\* the value one row alone gives: its last cell's text, whitespace collapsed;
\* for the homepage the first anchor's href, else the first URL of the
\* text, else null
C7_ValueOf(tds, k) ==
  LET td == tds[Len(tds)]
  IN IF k # "hompeiji" THEN clean(td.text)
     ELSE IF Len(td.anchors) > 0 /\ td.anchors[1] # null /\ td.anchors[1] # <<>>
          THEN td.anchors[1]
          ELSE IF MatchUrl(clean(td.text), 1) # <<>> THEN MatchUrl(clean(td.text), 1)
          ELSE null

C7_LastWins(ks) ==
  \A k \in ks :
    LET m == {i \in 1..row : C7_Matches(doc[i], k)}
    IN fields[C7_Field(k)] =
         IF m = {} THEN InitialFields[C7_Field(k)]
         ELSE C7_ValueOf(doc[CHOOSE i \in m : \A j \in m : j <= i], k)

\* the six text labels: the last matching row's value stands
C7_TextLabelsLastWins == C7_LastWins(Range(LabelChain) \ {"hompeiji"})

\* C7 (as claimed): for each of the seven recognized labels the field holds
\* the value of the last matching row alone (the initial value when no row
\* matched); other rows change nothing.
C7_LastMatchingRowWins == C7_LastWins(Range(LabelChain))

\* -------------------------------------------------- claims under SpecTime
\* the text without its whitespace
C8_Stripped == SelectSeq(text, LAMBDA c : c # " " /\ c # "\n")

C8_IsNumber(ds, lens) == Len(ds) \in lens /\ \A i \in DOMAIN ds : ds[i] \in Digits

C8_Value(ds) ==
  IF Len(ds) = 1 THEN DigitVal(ds[1]) ELSE 10 * DigitVal(ds[1]) + DigitVal(ds[2])

C8_TwoDigits(n) == <<DigitSeq[(n \div 10) + 1], DigitSeq[(n % 10) + 1]>>

C8_Piece(s, from, len) == SubSeq(s, from, from + len - 1)

\* every H:MM or HH:MM in s, as <<hour, minute>>
C8_Explicit(s) ==
  {<<C8_Value(C8_Piece(s, i, hl)), C8_Value(C8_Piece(s, i + hl + 1, 2))>> :
     <<i, hl>> \in {x \in (1..Len(s)) \X {1, 2} :
                     /\ x[1] + x[2] + 2 <= Len(s)
                     /\ C8_IsNumber(C8_Piece(s, x[1], x[2]), {1, 2})
                     /\ s[x[1] + x[2]] = ":"
                     /\ C8_IsNumber(C8_Piece(s, x[1] + x[2] + 1, 2), {2})}}

\* the minutes that follow position j: those of a <digits>bun there, else
\* none, written -1
C8_Minutes(s, j) ==
  LET with == {ml \in {1, 2} : /\ j + ml <= Len(s)
                                /\ C8_IsNumber(C8_Piece(s, j, ml), {1, 2})
                                /\ s[j + ml] = "bun"}
  IN IF with = {} THEN {-1} ELSE {C8_Value(C8_Piece(s, j, ml)) : ml \in with}

\* every <marker><hour>si[<minute>bun] in s, as <<marker, hour, minute>>
C8_Marked(s) ==
  UNION {{<<s[x[1]], C8_Value(C8_Piece(s, x[1] + 1, x[2])), m>> :
            m \in C8_Minutes(s, x[1] + x[2] + 2)} :
         x \in {y \in (1..Len(s)) \X {1, 2} :
                  /\ y[1] + y[2] + 1 <= Len(s)
                  /\ s[y[1]] \in {"ojeon", "ohu"}
                  /\ C8_IsNumber(C8_Piece(s, y[1] + 1, y[2]), {1, 2})
                  /\ s[y[1] + y[2] + 1] = "si"}}

\* every <hour>si in s, as the hour
C8_Bare(s) ==
  {C8_Value(C8_Piece(s, x[1], x[2])) :
     x \in {y \in (1..Len(s)) \X {1, 2} :
              /\ y[1] + y[2] <= Len(s)
              /\ C8_IsNumber(C8_Piece(s, y[1], y[2]), {1, 2})
              /\ s[y[1] + y[2]] = "si"}}

\* the hour the claim gives for a marked hour; where it gives none, any
C8_HourAgrees(marker, hour, out) ==
  CASE marker = "ohu" /\ hour \in 1..11 -> out = hour + 12
    [] marker = "ojeon" /\ hour = 12 -> out = 0
    [] marker = "ojeon" /\ hour \in 1..11 -> out = hour
    [] marker = "ohu" /\ hour = 12 -> out = hour
    [] OTHER -> TRUE

C8_WellFormed(out) ==
  /\ Len(out) = 5
  /\ out[3] = ":"
  /\ \A i \in {1, 2, 4, 5} : out[i] \in Digits

\* C8: parseTime returns the result of the first pattern, in the order
\* explicit H:MM, marked hour, bare hour, that matches the text without its
\* whitespace, and null when none does; a marked afternoon hour 1-11 gains
\* twelve, a marked morning hour 12 becomes 0, the other marked hours 1-12
\* stay, absent minutes are 00; the result has two digits, a colon, two digits.
C8_FirstPatternWins ==
  tpc = "parsed" =>
    LET s == C8_Stripped
        hm == <<C8_Value(SubSeq(timeOut, 1, 2)), C8_Value(SubSeq(timeOut, 4, 5))>>
    IN /\ timeOut # null => C8_WellFormed(timeOut)
       /\ IF C8_Explicit(s) # {} THEN timeOut # null /\ hm \in C8_Explicit(s)
          ELSE IF C8_Marked(s) # {}
          THEN /\ timeOut # null
               /\ \E m \in C8_Marked(s) :
                    /\ C8_HourAgrees(m[1], m[2], hm[1])
                    /\ hm[2] = (IF m[3] = -1 THEN 0 ELSE m[3])
          ELSE IF C8_Bare(s) # {}
          THEN timeOut # null /\ hm[1] \in C8_Bare(s) /\ hm[2] = 0
          ELSE timeOut = null

\* C8 witness: a marked afternoon hour with minutes, no explicit H:MM
C8_Witness ==
  /\ tpc = "parsed"
  /\ C8_Explicit(C8_Stripped) = {}
  /\ \E m \in C8_Marked(C8_Stripped) :
       /\ m[1] = "ohu" /\ m[2] \in 1..11 /\ m[3] > 0
       /\ timeOut = C8_TwoDigits(m[2] + 12) \o <<":">> \o C8_TwoDigits(m[3])

\* ------------------------------------------------------ claims under Spec
Main == 1

ConfigPresent == token /\ dbId

CallsAt(r, k, ops) ==
  SelectSeq(calls, LAMBDA c : c.run = r /\ c.at = k /\ c.op \in ops)

Writes == {"create", "update"}

\* C3: with both secrets set, an upsert whose query returned issues exactly
\* one write: a create and no update when the query returned no match, one
\* update of the first returned match and no create otherwise; no upsert
\* ever issues both a create and an update.
C3_OneWriteChosenByQuery ==
  \A r \in runs : \A k \in 1..Len(nos[r]) :
    LET q == CallsAt(r, k, {"query"})
        creates == CallsAt(r, k, {"create"})
        updates == CallsAt(r, k, {"update"})
    IN /\ ~(Len(creates) > 0 /\ Len(updates) > 0)
       /\ Len(creates) + Len(updates) <= 1
       /\ (ConfigPresent /\ k <= Len(trail[r]) /\ Len(q) = 1 /\ q[1].status # "threw") =>
             IF q[1].ids = <<>>
             THEN Len(creates) = 1 /\ Len(updates) = 0
             ELSE /\ Len(updates) = 1 /\ Len(creates) = 0
                  /\ updates[1].ids = <<q[1].ids[1]>>

\* C3 witness: the query returned two matches, the newer page first, and the
\* update went to that first match.
C3_Witness ==
  \E i, j \in DOMAIN calls :
    /\ calls[i].op = "query" /\ calls[i].ids = <<2, 1>>
    /\ calls[j].op = "update" /\ calls[j].ids = <<2>>
    /\ calls[i].at = calls[j].at

\* C1 (as claimed): when one run syncs the same name twice, with no page of
\* that name in the store before, the second upsert updates the page the
\* first created and creates nothing.  Stated for upserts whose requests all
\* succeeded, with both secrets set.
C1_SecondUpsertUpdates ==
  \A r \in runs : \A k1, k2 \in 1..Len(trail[r]) :
    LET q1 == CallsAt(r, k1, {"query"})
        q2 == CallsAt(r, k2, {"query"})
        w1 == CallsAt(r, k1, Writes)
        w2 == CallsAt(r, k2, Writes)
    IN (/\ ConfigPresent
        /\ k1 < k2
        /\ Len(q1) = 1 /\ Len(q2) = 1 /\ Len(w1) = 1 /\ Len(w2) = 1
        /\ q1[1].name = q2[1].name
        /\ q1[1].status = "ok" /\ q2[1].status = "ok"
        /\ w1[1].status = "ok" /\ w2[1].status = "ok"
        /\ w1[1].op = "create")
       => (w2[1].op = "update" /\ w2[1].ids = w1[1].ids)

\* C2 (as claimed): with either secret missing no create and no update is
\* sent to the store and no upsert raises.
C2_NoOpWithoutConfig ==
  ~ConfigPresent =>
    /\ \A i \in DOMAIN calls : calls[i].op \notin Writes
    /\ \A r \in runs : "sync" \notin faults[r]

\* C10 (as claimed, its sequential half): a single run whose queries all
\* succeed never creates two pages for one name.
C10_NoDuplicateSequential ==
  (\A i \in DOMAIN calls : calls[i].op = "query" => calls[i].status = "ok") =>
    \A i, j \in DOMAIN calls :
      (/\ i < j
       /\ calls[i].op = "create" /\ calls[i].status = "ok"
       /\ calls[j].op = "create" /\ calls[j].status = "ok")
      => calls[i].name # calls[j].name

\* C10, its concurrent half, under SpecRace: two runs whose queries both
\* succeeded and found nothing have both created a page for the one name.
\* The state is reachable: TLC finds ~C10_RaceDuplicate violated.
C10_RaceDuplicate ==
  \E i, j \in DOMAIN calls :
    /\ calls[i].run # calls[j].run
    /\ calls[i].op = "create" /\ calls[i].status = "ok"
    /\ calls[j].op = "create" /\ calls[j].status = "ok"
    /\ calls[i].name = <<"A">> /\ calls[j].name = <<"A">>
    /\ \A k \in DOMAIN calls : calls[k].op = "query" => calls[k].status = "ok"

\* C9: a non-2xx answer to the query is an empty match list and the upsert
\* goes on to a create; a failed create or update raises out of the upsert,
\* which ends that record's sync only: the next identifier is about to be or
\* has been fetched, or, after the last one, the code after the loop runs.
C9_StoreFailuresPerPhase ==
  \A r \in runs : \A k \in 1..Len(trail[r]) :
    LET q == CallsAt(r, k, {"query"})
        w == CallsAt(r, k, Writes)
    IN /\ (Len(q) = 1 /\ q[1].status = "non2xx") =>
             /\ q[1].ids = <<>>
             /\ Len(w) = 1 /\ w[1].op = "create"
             /\ (trail[r][k] = "syncRaised" <=> w[1].status = "failed")
       /\ (Len(w) = 1 /\ w[1].status = "failed") => trail[r][k] = "syncRaised"
       /\ trail[r][k] = "syncRaised" =>
             IF k < Len(nos[r])
             THEN \/ pc[r] = "detail" /\ idx[r] = k + 1
                  \/ Len(attempted[r]) > k /\ attempted[r][k + 1] = nos[r][k + 1]
             ELSE pc[r] = "persist" \/ written[r] # <<>>

\* C9 witness: the first identifier's query answered non-2xx, its create
\* failed, and the driver is fetching the second identifier.
C9_Witness ==
  /\ Len(nos[Main]) = 2
  /\ trail[Main] = <<"syncRaised">>
  /\ pc[Main] = "detail" /\ idx[Main] = 2
  /\ \E i, j \in DOMAIN calls :
       /\ calls[i].op = "query" /\ calls[i].status = "non2xx"
       /\ calls[j].op = "create" /\ calls[j].status = "failed"

\* The driver's bookkeeping: identifiers are attempted in discovery order,
\* each once, and the file write is requested after all of them, with the
\* records of the identifiers whose fetch succeeded.
AttemptsInOrder ==
  /\ Len(attempted[Main]) <= Len(nos[Main])
  /\ attempted[Main] = SubSeq(nos[Main], 1, Len(attempted[Main]))
  /\ pc[Main] \in {"detail", "upsert", "query", "write"} =>
       Len(attempted[Main]) = (IF pc[Main] = "detail" THEN idx[Main] - 1 ELSE idx[Main])
  /\ written[Main] # <<>> =>
       /\ attempted[Main] = nos[Main]
       /\ Len(trail[Main]) = Len(nos[Main])
       /\ written[Main] = <<results[Main]>>
       /\ Len(results[Main]) =
            Cardinality({k \in DOMAIN trail[Main] : trail[Main][k] # "detailFailed"})

DiscoveryDone == pc[Main] \in {"detail", "persist"}

PersistRequested == written[Main] # <<>>

\* C4: once fetchListNos has returned, whatever fails for single identifiers,
\* each identifier is attempted once, in order, never again, and the write of
\* the accumulated records is eventually requested.
C4_EveryIdentifierThenPersist ==
  [](AttemptsInOrder) /\ (DiscoveryDone ~> PersistRequested)

\* C4 witness: the first identifier's fetch failed, the second one's sync
\* raised, and the write was requested.
C4_Witness ==
  /\ trail[Main] = <<"detailFailed", "syncRaised">>
  /\ PersistRequested

\* C5 (as claimed): the process ends with a non-zero status exactly when
\* fetchListNos failed.
C5_FatalOnlyOnListFailure ==
  \A r \in runs :
    exitStatus[r] # -1 => (exitStatus[r] # 0 <=> "list" \in faults[r])

\* C5 (amended): the process ends with a non-zero status exactly when
\* fetchListNos failed or the end-of-run write failed; no failure of a
\* single identifier's fetch, parse or sync is fatal.
C5_FatalOnListOrPersistFailure ==
  \A r \in runs :
    /\ exitStatus[r] # -1 =>
         (exitStatus[r] # 0 <=> ("list" \in faults[r] \/ "persist" \in faults[r]))
    /\ pc[r] \in {"fatal", "exited"} =>
         ("list" \in faults[r] \/ "persist" \in faults[r])

\* C5 witness: a fetch and a sync failed, the run went on, the final write
\* failed and the process exited with status 1.
C5_Witness ==
  /\ faults[Main] = {"detail", "sync", "persist"}
  /\ exitStatus[Main] = 1

====
